---- MODULE Spec2Model ----
(***************************************************************************)
(* Model of the MATLAB-to-HDF5 scripts:                                    *)
(*   hdf5Creator.py            calcInfoStructureVariableBinSizesNeuroMobLab *)
(*   mat_to_hdf5_converter.py  convert_mat_to_hdf5, verify_conversion       *)
(*   simple_mat_to_hdf5_converter.py  simple_mat_to_hdf5_converter,         *)
(*                                    verify_simple_conversion              *)
(*                                                                         *)
(* Spec      the batch function run as a whole, statement by statement,    *)
(*           an uncaught exception ending the run.                         *)
(* SpecSteps the statements of the batch loop (lines 59-98) applied, each  *)
(*           on its own, to operands drawn from bounded sets.              *)
(* SpecConv  one call of convert_mat_to_hdf5.                              *)
(* SpecMain  main() of either converter script: the conversion, then the   *)
(*           verification of the file it returned.                        *)
(***************************************************************************)
EXTENDS Integers, Sequences, FiniteSets, TLC

VARIABLES
    pc,              \* position in the function being run
    exc,             \* the exception that ended the run, "none" otherwise
    h5open,          \* TRUE while the container handle (info / h5f) is open
    groups,          \* paths of the groups present in the container
    datasets,        \* paths of the datasets present in the container
    attrs,           \* attributes present in the container, as <<path, name>>
    k,               \* index into the list a setup loop walks
    nTrials,         \* len(listOfTrials), an argument of the batch function
    commonInfo,      \* the commonInfo argument: field name -> value
    emgBinValuesMax, \* binding of the local variable emgBinValuesMax
    op,              \* SpecSteps: the statement applied
    arg,             \* SpecSteps: its operands
    ret,             \* SpecSteps: its result, NotYet before it is applied
    mat,             \* SpecConv: the input .mat file and the record in it
    h5path,          \* SpecConv: what is at the output path
    call,            \* the script run and the output path as the call found it
    stored,          \* the contents of the datasets written to the container
    report           \* what the verification reported and returned

vars == <<pc, exc, h5open, groups, datasets, attrs, k, nTrials, commonInfo,
          emgBinValuesMax, op, arg, ret, mat, h5path,
                   call, stored, report>>

(***************************************************************************)
(* Bounds                                                                  *)
(***************************************************************************)
MaxTrials == 3
MaxBins == 3
MaxCols == 2
MaxListLen == 12
MaxJoints == 2
MaxEvents == 2

(***************************************************************************)
(* Values. A Python value the model distinguishes is a record [kind, v]:   *)
(* kind names its type (or the exception raised in its place) and v holds  *)
(* its content, <<>> where there is none.                                  *)
(***************************************************************************)
Val(kind, v) == [kind |-> kind, v |-> v]
None == Val("None", <<>>)
NotYet == Val("NotYet", <<>>)
Raised(e) == Val(e, <<>>)
Array1(s) == Val("array1", s)
Array2(m) == Val("array2", m)
GroupHandle(name) == Val("Group", name)
Same(a, b) == a.kind = b.kind /\ a.v = b.v
IsError(x) == x.kind \in {"ValueError", "TypeError", "AxisError", "KeyError",
                          "ZeroDivisionError", "OSError", "NameError",
                          "AttributeError", "FileNotFoundError"}

Max2(a, b) == IF a >= b THEN a ELSE b

(***************************************************************************)
(* hdf5Creator.py, setup (lines 9-55)                                      *)
(***************************************************************************)
\* The names passed to info.create_group, in order (lines 15-36).
groupNames ==
    << "trialName", "trialNumber", "subjectName", "subjectHeight",
       "subjectMass", "subjectAge", "subjectSex", "subjectLegLength",
       "subjectHipWidth", "subjectStanceWidth", "perturbationMagnitudePos",
       "perturbationMagnitudeVel", "perturbationMagnitudeAcc",
       "perturbationDirection", "perturbationOnset", "perturbationTrace",
       "emgNames", "emgOnsets", "emgBinNames", "emgBinValues",
       "emgBinValuesMax", "comTrace" >>

\* The list `fields` (lines 38-48): the float64 growable datasets.
fields ==
    << "subjectLegLength", "subjectHipWidth", "subjectStanceWidth",
       "perturbationMagnitudePos", "perturbationMagnitudeVel",
       "perturbationMagnitudeAcc", "perturbationTrace", "emgOnsets",
       "comTrace" >>

\* The names of the string datasets (line 54).
stringFields == << "trialName", "subjectName", "emgNames", "emgBinNames" >>

\* The names setup asks create_dataset for, in order (lines 50-51, 54-55).
datasetNames == fields \o stringFields

Range(s) == { s[j] : j \in 1..Len(s) }

\* The fields of a BatchTrialEntry: the 22 names the function declares.
BatchFields == Range(groupNames)

\* A node of either kind occupies its path: h5py refuses to create a group or
\* a dataset at a path that is taken ("name already exists", a ValueError).
PathTaken(grps, dsets, path) == path \in grps \/ path \in dsets

\* The fields commonInfo may name in the model.
CommonFields == {"subjectHeight", "subjectSex", "trialName"}
CommonValues == {"c1", "c2"}
CommonInfos == UNION { [D -> CommonValues] : D \in SUBSET CommonFields }

\* What line 35 binds the local emgBinValuesMax to: the handle of the group
\* it creates. No later statement of setup rebinds it.
SetupBinding == GroupHandle("emgBinValuesMax")

InitBatch ==
    /\ pc = "open"
    /\ exc = "none"
    /\ h5open = FALSE
    /\ groups = {}
    /\ datasets = {}
    /\ attrs = {}
    /\ k = 1
    /\ nTrials \in 0..MaxTrials
    /\ commonInfo \in CommonInfos
    /\ emgBinValuesMax = Val("unbound", <<>>)
    /\ op = "none"
    /\ arg = <<>>
    /\ ret = NotYet
    /\ mat = <<>>
    /\ h5path = "absent"
    /\ call = <<>>
    /\ stored = <<>>
    /\ report = NotYet

\* Line 9: info = h5.File("info.hdf5", "w"): a new, empty container, open.
OpenInfo ==
    /\ pc = "open"
    /\ h5open' = TRUE
    /\ groups' = {}
    /\ datasets' = {}
    /\ pc' = "groups"
    /\ k' = 1
    /\ UNCHANGED <<exc, attrs, nTrials, commonInfo, emgBinValuesMax, op, arg,
                   ret, mat, h5path,
                   call, stored, report>>

\* Lines 15-36: one info.create_group(name) per step. Line 35 binds the
\* local emgBinValuesMax to the group it creates.
CreateGroup ==
    /\ pc = "groups"
    /\ k <= Len(groupNames)
    /\ IF PathTaken(groups, datasets, groupNames[k])
       THEN /\ exc' = "ValueError"
            /\ pc' = "raised"
            /\ UNCHANGED <<groups, k, emgBinValuesMax>>
       ELSE /\ groups' = groups \cup {groupNames[k]}
            /\ emgBinValuesMax' =
                   IF groupNames[k] = "emgBinValuesMax"
                   THEN SetupBinding
                   ELSE emgBinValuesMax
            /\ k' = IF k = Len(groupNames) THEN 1 ELSE k + 1
            /\ pc' = IF k = Len(groupNames) THEN "datasets" ELSE "groups"
            /\ exc' = exc
    /\ UNCHANGED <<h5open, datasets, attrs, nTrials, commonInfo, op, arg, ret,
                   mat, h5path,
                   call, stored, report>>

\* Lines 50-51 and 54-55: one info.create_dataset(name, shape=(0,), ...) per
\* step. Nothing catches the exception of a taken path: the run ends there,
\* and nothing closes info.
CreateDataset ==
    /\ pc = "datasets"
    /\ k <= Len(datasetNames)
    /\ IF PathTaken(groups, datasets, datasetNames[k])
       THEN /\ exc' = "ValueError"
            /\ pc' = "raised"
            /\ UNCHANGED <<datasets, k>>
       ELSE /\ datasets' = datasets \cup {datasetNames[k]}
            /\ k' = IF k = Len(datasetNames) THEN 1 ELSE k + 1
            /\ pc' = IF k = Len(datasetNames) THEN "loop" ELSE "datasets"
            /\ exc' = exc
    /\ UNCHANGED <<h5open, groups, attrs, nTrials, commonInfo, emgBinValuesMax,
                   op, arg, ret, mat, h5path,
                   call, stored, report>>

NextBatch == OpenInfo \/ CreateGroup \/ CreateDataset

Spec == InitBatch /\ [][NextBatch]_vars

(***************************************************************************)
(* hdf5Creator.py, the statements of the loop (lines 59-98) as operators   *)
(***************************************************************************)
\* The values a per-bin array holds in the model.
BinValues == 1..5
Arrays1 == UNION { [1..n -> BinValues] : n \in 1..MaxBins }

\* Line 62: if i % floor(nTrials/10) == 0: print(...). The divisor is 0 for
\* a list of fewer than 10 trials: the modulo raises ZeroDivisionError, which
\* nothing catches. Otherwise the statement prints or not and the iteration
\* goes on to line 64 with the same i.
Progress(i, n) ==
    IF n \div 10 = 0
    THEN Val("ZeroDivisionError", [i |-> i, next |-> "raised"])
    ELSE Val("ok", [i |-> i, next |-> "load",
                    printed |-> (i % (n \div 10) = 0)])

\* Line 64: d = np.load(join(directory, listOfTrials[i])). No try encloses
\* it (lines 7-101 hold none): a failed load is an exception that leaves the
\* loop and the function. iiTrial is untouched either way.
Load(loadOk, iiTrial) ==
    IF loadOk
    THEN Val("loaded", [iiTrial |-> iiTrial, loop |-> "continues"])
    ELSE Val("OSError", [iiTrial |-> iiTrial, loop |-> "left"])

\* A key of a per-trial entry that is a group handle, not a name: lines 72-75
\* subscript with the variables bound at lines 26-29.
HandleKey(name) == "<Group " \o name \o ">"

\* Line 79: keep the names that hold a "-".
DashNames == {"TA-L", "MG-R"}
EmgBoxIds == { <<"TA-L", "sync">>, <<"MG-R">>, <<"sync">> }
KeepDashed(names) == SelectSeq(names, LAMBDA n : n \in DashNames)

\* Lines 66-82: the item assignments into the entry info[iiTrial] of the
\* trial, here applied to the mapping the subscript designates. These are
\* all the keys the loop body assigns.
WriteEntry(velocity, acceleration, direction, onset, box1, box2) ==
    ( "subjectNumber" :> "nan" ) @@ ( "subjectHeight" :> "nan" ) @@
    ( "subjectMass" :> "nan" ) @@ ( "subjectAge" :> "nan" ) @@
    ( "subjectSex" :> "U" ) @@
    ( HandleKey("perturbationMagnitudeVel") :> velocity ) @@
    ( HandleKey("perturbationMagnitudeAcc") :> acceleration ) @@
    ( HandleKey("perturbationDirection") :> direction ) @@
    ( HandleKey("perturbationOnset") :> onset ) @@
    ( "emgNames" :> KeepDashed(box1 \o box2) ) @@
    ( "emgBinValues" :> "" )

\* The keys in the order the assignments insert them: list(entry.keys()).
entryKeys ==
    << "subjectNumber", "subjectHeight", "subjectMass", "subjectAge",
       "subjectSex", HandleKey("perturbationMagnitudeVel"),
       HandleKey("perturbationMagnitudeAcc"),
       HandleKey("perturbationDirection"), HandleKey("perturbationOnset"),
       "emgNames", "emgBinValues" >>

\* What line 82 stores as the trial's emgBinValues, and line 87 or 89 reads
\* back: the empty string.
EmptyString == Val("str", "")

\* np.asarray as np.maximum and np.max apply it to an operand: an array is
\* itself; a group handle is taken as the sequence of its member names, and
\* the group of line 35 has no member.
AsArray(x) == IF x.kind = "Group" THEN Array1(<<>>) ELSE x

\* np.maximum(a, b) on 1-D operands: the lengths must be equal or one of them
\* 1 (broadcasting); any other pair of lengths is a ValueError. It has no
\* loop for a string operand (TypeError).
NpMaximum(a, b) ==
    LET x == AsArray(a)
        y == AsArray(b)
        la == Len(x.v)
        lb == Len(y.v)
    IN  IF x.kind = "str" \/ y.kind = "str" THEN Raised("TypeError")
        ELSE IF la = lb \/ la = 1 \/ lb = 1
        THEN Array1([j \in 1..(IF la = 1 THEN lb ELSE la) |->
                        Max2(x.v[IF la = 1 THEN 1 ELSE j],
                             y.v[IF lb = 1 THEN 1 ELSE j])])
        ELSE Raised("ValueError")

\* Lines 86-89: the update of the running maximum with the trial's values.
MaxStep(acc, vals) ==
    IF acc.kind = "None"
    THEN [branch |-> "unset", value |-> vals]
    ELSE [branch |-> "maximum", value |-> NpMaximum(acc, vals)]

\* commonInfo[key] on a dict: a list is unhashable, so a list key raises
\* TypeError before any lookup.
DictGetItem(d, key) ==
    IF key.kind = "list" THEN Raised("TypeError")
    ELSE IF key.v \in DOMAIN d THEN Val("str", d[key.v])
    ELSE Raised("KeyError")

\* Lines 91-94: for field in infoFields: if field in commonInfo:
\*     info[iiTrial][field] = commonInfo[infoFields]
\* The subscript of commonInfo is the list infoFields, not the field.
RECURSIVE OverrideFrom(_, _, _, _)
OverrideFrom(entry, infoFields, ci, j) ==
    IF j > Len(infoFields) THEN Val("dict", entry)
    ELSE IF infoFields[j] \in DOMAIN ci
         THEN LET got == DictGetItem(ci, Val("list", infoFields))
              IN  IF IsError(got) THEN got
                  ELSE OverrideFrom([entry EXCEPT ![infoFields[j]] = got.v],
                                    infoFields, ci, j + 1)
         ELSE OverrideFrom(entry, infoFields, ci, j + 1)

Override(entry, infoFields, ci) == OverrideFrom(entry, infoFields, ci, 1)

\* Line 96: iiTrial += 1. It is the one statement of the loop that touches
\* the counter, and no statement of lines 59-96 resizes or appends to a
\* dataset: the leading lengths leave an iteration as they entered it.
Commit(iiTrial, lens) == [iiTrial |-> iiTrial + 1, lens |-> lens]

RECURSIVE RowMax(_, _)
RowMax(row, j) ==
    IF j = 1 THEN row[1] ELSE Max2(row[j], RowMax(row, j - 1))

FinalizeNoKeepdims(acc) ==
    LET x == AsArray(acc)
    IN  IF x.kind # "array2" THEN Raised("AxisError")
        ELSE IF \E r \in 1..Len(x.v) : Len(x.v[r]) = 0
             THEN Raised("ValueError")
             ELSE Array1([r \in 1..Len(x.v) |-> RowMax(x.v[r], Len(x.v[r]))])

\* Line 98: np.max(emgBinValuesMax, axis=1, keepdims=True): each row of a
\* 2-D array is reduced to its maximum and stays a row of one column. A 1-D
\* operand has no axis 1 (AxisError); a row of no column has no maximum
\* (ValueError).
Finalize(acc) ==
    LET x == AsArray(acc)
    IN  IF x.kind # "array2" THEN Raised("AxisError")
        ELSE IF \E r \in 1..Len(x.v) : Len(x.v[r]) = 0
             THEN Raised("ValueError")
             ELSE Array2([r \in 1..Len(x.v) |->
                             << RowMax(x.v[r], Len(x.v[r])) >>])

(***************************************************************************)
(* SpecSteps: one statement of the loop applied to drawn operands          *)
(***************************************************************************)
LogValues == {"v1", "v2"}

\* The values a cell of a 2-D accumulator holds in the model.
CellValues == {1, 2}
Arrays2 ==
    UNION { [1..r -> [1..c -> CellValues]] : r \in 1..MaxBins, c \in 0..MaxCols }

\* The leading lengths of the growable datasets when iiTrial - 1 trials
\* have been committed and each has taken one slot.
LensAt(iiTrial) == [f \in Range(datasetNames) |-> iiTrial - 1]

\* The per-bin values of a trial: the placeholder of line 82, or an array
\* where the values are supplied.
TrialBinValues == {EmptyString} \cup {Array1(a) : a \in Arrays1}

\* The operands of each statement. The accumulator a first iteration
\* (iiTrial = 1, line 59) meets is the binding setup left; a later one meets
\* an array.
StepArgs(o) ==
    CASE o = "progress" ->
           { x \in [nTrials : 1..MaxListLen, i : 0..(MaxListLen - 1)] :
                x.i < x.nTrials }
      [] o = "load" ->
           [loadOk : BOOLEAN, iiTrial : 1..MaxTrials]
      [] o = "write" ->
           [velocity : LogValues, acceleration : LogValues,
            direction : LogValues, onset : {"o1"},
            box1 : EmgBoxIds, box2 : EmgBoxIds]
      [] o = "max" ->
           [iiTrial : {1}, acc : {SetupBinding}, vals : TrialBinValues]
           \cup [iiTrial : {2}, acc : {Array1(a) : a \in Arrays1},
                 vals : TrialBinValues]
      [] o = "override" ->
           [entry : {WriteEntry(v, "v1", "v1", "o1", <<"TA-L">>, <<"sync">>) :
                        v \in LogValues},
            ci : CommonInfos]
      [] o = "commit" ->
           { [iiTrial |-> n, lens |-> LensAt(n)] : n \in 1..MaxTrials }
      [] o = "finalize" ->
           [acc : {Array2(m) : m \in Arrays2} \cup {Array1(a) : a \in Arrays1}
                  \cup {SetupBinding}]

StepOps == {"progress", "load", "write", "max", "override", "commit", "finalize"}

InitSteps ==
    /\ pc = "step"
    /\ exc = "none"
    /\ h5open = TRUE
    /\ groups = {}
    /\ datasets = {}
    /\ attrs = {}
    /\ k = 1
    /\ nTrials = 0
    /\ commonInfo = <<>>
    /\ emgBinValuesMax = None
    /\ op \in StepOps
    /\ arg \in StepArgs(op)
    /\ ret = NotYet
    /\ mat = <<>>
    /\ h5path = "absent"
    /\ call = <<>>
    /\ stored = <<>>
    /\ report = NotYet

StepFrame == UNCHANGED <<exc, h5open, groups, datasets, attrs, k, nTrials,
                         commonInfo, emgBinValuesMax, op, arg, mat, h5path,
                   call, stored, report>>

ApplyProgress ==
    /\ pc = "step" /\ op = "progress"
    /\ ret' = Progress(arg.i, arg.nTrials)
    /\ pc' = "applied"
    /\ StepFrame

ApplyLoad ==
    /\ pc = "step" /\ op = "load"
    /\ ret' = Load(arg.loadOk, arg.iiTrial)
    /\ pc' = "applied"
    /\ StepFrame

ApplyWrite ==
    /\ pc = "step" /\ op = "write"
    /\ ret' = Val("dict", WriteEntry(arg.velocity, arg.acceleration,
                                     arg.direction, arg.onset, arg.box1,
                                     arg.box2))
    /\ pc' = "applied"
    /\ StepFrame

ApplyMax ==
    /\ pc = "step" /\ op = "max"
    /\ ret' = Val("step", MaxStep(arg.acc, arg.vals))
    /\ pc' = "applied"
    /\ StepFrame

ApplyOverride ==
    /\ pc = "step" /\ op = "override"
    /\ ret' = Override(arg.entry, entryKeys, arg.ci)
    /\ pc' = "applied"
    /\ StepFrame

ApplyCommit ==
    /\ pc = "step" /\ op = "commit"
    /\ ret' = Val("state", Commit(arg.iiTrial, arg.lens))
    /\ pc' = "applied"
    /\ StepFrame

ApplyFinalize ==
    /\ pc = "step" /\ op = "finalize"
    /\ ret' = Finalize(arg.acc)
    /\ pc' = "applied"
    /\ StepFrame

NextSteps ==
    \/ ApplyProgress
    \/ ApplyLoad
    \/ ApplyWrite
    \/ ApplyMax
    \/ ApplyOverride
    \/ ApplyCommit
    \/ ApplyFinalize

SpecSteps == InitSteps /\ [][NextSteps]_vars

Applied(o) == pc = "applied" /\ op = o

(***************************************************************************)
(* mat_to_hdf5_converter.py: convert_mat_to_hdf5 (lines 16-139)            *)
(***************************************************************************)
\* The optional fields of the trial record, each behind a hasattr test.
TrialFields == {"time", "joint_angles", "grf", "events"}

\* The leaves a record may lack although the code reads them without a test.
Leaves == {"schema_version", "subject.id", "trial001", "notes",
           "time.units", "joint_angles.joint_names", "grf.axes",
           "events.labels"}

\* The names and labels a record holds in the model.
JointNames == {"hip", "knee"}
LabelNames == {"HS", "TO"}
SeqsUpTo(S, n) == UNION { [1..m -> S] : m \in 0..n }

\* The data of a trial record in the .mat file: the column count of
\* joint_angles.values, the cell array joint_angles.joint_names, the number
\* of events.indices and the cell array events.labels. Nothing in the file
\* ties the length of the names to the columns, or of the labels to the
\* events.
TrialData ==
    [jaCols : 1..MaxJoints, jointNames : SeqsUpTo(JointNames, MaxJoints),
     nEvents : 0..MaxEvents, labels : SeqsUpTo(LabelNames, MaxEvents)]

DemoData ==
    [jaCols |-> 2, jointNames |-> <<"hip", "knee">>,
     nEvents |-> 2, labels |-> <<"HS", "TO">>]

\* The input: whether the .mat file exists, whether loadmat reads it,
\* whether it holds gaitData, the optional fields of trial001, the one leaf
\* the record lacks (if any), the column count of grf.values and the data.
MatFilesWith(D) ==
    [exists : BOOLEAN, loads : BOOLEAN, gaitData : BOOLEAN,
     has : SUBSET TrialFields, lacks : Leaves \cup {"nothing"},
     grfCols : {2, 3}, data : D]
MatFiles == MatFilesWith(TrialData)

\* A string as the container holds it (UTF-8 bytes), and a new container's
\* contents.
Encode(str) == Val("bytes", str)
EmptyStore ==
    [jaShape |-> <<>>, jointNames |-> <<>>, grfCols |-> 0,
     events |-> Val("vector", 0), labels |-> <<>>]

\* loadmat(..., squeeze_me=True) (line 51) squeezes unit dimensions and
\* turns what is left with no dimension into the element itself.
\* A cell array of one string is loaded as that string:
SqueezeCell(cell) ==
    IF Len(cell) = 1 THEN Val("str", cell[1]) ELSE Val("array", cell)
\* an N x 1 matrix as a vector of N (the shape after the sample axis):
SqueezeCols(cols) == IF cols = 1 THEN <<>> ELSE <<cols>>
\* and a vector of one index as a number, which np.array makes a
\* 0-dimensional array and create_dataset a scalar dataset.
SqueezeVector(n) == IF n = 1 THEN Val("scalar", 1) ELSE Val("vector", n)

\* The characters of the strings of the model.
Chars(str) ==
    CASE str = "hip" -> <<"h", "i", "p">>
      [] str = "knee" -> <<"k", "n", "e", "e">>
      [] str = "HS" -> <<"H", "S">>
      [] str = "TO" -> <<"T", "O">>

\* for name in <loaded value> (lines 109 and 132): an array gives its
\* elements, a str its characters.
Iterate(loaded) == IF loaded.kind = "str" THEN Chars(loaded.v) ELSE loaded.v

\* extract_string (lines 40-49) on an element of a name or label list: a
\* Python str has no item() and is no ndarray, so it is str(obj).
extract_string(obj) == obj

\* Lines 109-112 and 132-133: the list written from a loaded cell array.
WrittenStrings(cell) ==
    LET items == Iterate(SqueezeCell(cell))
    IN  [j \in 1..Len(items) |-> Encode(extract_string(items[j]))]

TrialPath(name) == "/trials/trial001/" \o name

HasFieldSwapped(rec, name) ==
    IF name = "grf" THEN "events" \in rec.has ELSE name \in rec.has

\* hasattr(trial_data, name) (lines 86, 97, 115, 127).
HasField(rec, name) == name \in rec.has

\* Reading gait_data.<leaf>: AttributeError when the record lacks it.
Lacks(rec, leaf) == rec.lacks = leaf

InitConv ==
    /\ pc = "check"
    /\ exc = "none"
    /\ h5open = FALSE
    /\ groups = {}
    /\ datasets = {}
    /\ attrs = {}
    /\ k = 1
    /\ nTrials = 0
    /\ commonInfo = <<>>
    /\ emgBinValuesMax = None
    /\ op = "none"
    /\ arg = <<>>
    /\ ret = NotYet
    /\ mat \in MatFilesWith({DemoData})
    /\ h5path \in {"absent", "old"}
    /\ call = [script |-> "mat_to_hdf5_converter", h5before |-> h5path]
    /\ stored = EmptyStore
    /\ report = NotYet

ConvFrame == UNCHANGED <<k, nTrials, commonInfo, emgBinValuesMax, op, arg, ret,
                         mat, call, report>>

\* A converter that removes the output file before it looks for the input.
CheckMatAfterRemove ==
    /\ pc = "check"
    /\ IF mat.exists
       THEN pc' = "remove" /\ exc' = exc /\ h5path' = h5path
       ELSE pc' = "raised" /\ exc' = "FileNotFoundError" /\ h5path' = "absent"
    /\ UNCHANGED <<h5open, groups, datasets, attrs>>
    /\ ConvFrame
    /\ UNCHANGED stored

\* Lines 29-30: the input file must exist.
CheckMat ==
    /\ pc = "check"
    /\ IF mat.exists
       THEN pc' = "remove" /\ exc' = exc
       ELSE pc' = "raised" /\ exc' = "FileNotFoundError"
    /\ UNCHANGED <<h5open, groups, datasets, attrs, h5path>>
    /\ ConvFrame
    /\ UNCHANGED stored

\* Lines 33-35: a file at the output path is removed.
RemoveExisting ==
    /\ pc = "remove"
    /\ h5path' = IF h5path = "old" THEN "absent" ELSE h5path
    /\ pc' = "load"
    /\ UNCHANGED <<exc, h5open, groups, datasets, attrs>>
    /\ ConvFrame
    /\ UNCHANGED stored

\* Lines 51-52: loadmat, then mat_data['gaitData'].
LoadMat ==
    /\ pc = "load"
    /\ IF ~mat.loads THEN pc' = "raised" /\ exc' = "OSError"
       ELSE IF ~mat.gaitData THEN pc' = "raised" /\ exc' = "KeyError"
       ELSE pc' = "create" /\ exc' = exc
    /\ UNCHANGED <<h5open, groups, datasets, attrs, h5path>>
    /\ ConvFrame
    /\ UNCHANGED stored

\* Line 57: with h5py.File(h5_filename, 'w') as h5f: a new empty container.
OpenH5 ==
    /\ pc = "create"
    /\ h5path' = "new"
    /\ h5open' = TRUE
    /\ groups' = {}
    /\ datasets' = {}
    /\ attrs' = {}
    /\ pc' = "root"
    /\ exc' = exc
    /\ ConvFrame
    /\ stored' = EmptyStore

\* An exception inside the with block: the context manager closes h5f and
\* the exception leaves the function.
RaiseInWith(e) ==
    /\ exc' = e
    /\ h5open' = FALSE
    /\ pc' = "raised"

\* Lines 60-69: the root attributes, the subject group and its attributes.
WriteRootAndSubject ==
    /\ pc = "root"
    /\ IF Lacks(mat, "schema_version")
       THEN RaiseInWith("AttributeError") /\ UNCHANGED <<groups, attrs>>
       ELSE IF Lacks(mat, "subject.id")
       THEN /\ RaiseInWith("AttributeError")
            /\ attrs' = attrs \cup { <<"/", a>> :
                   a \in {"schema_version", "created_by", "coordinate_frame"} }
            /\ groups' = groups \cup {"/subject"}
       ELSE /\ attrs' = attrs
                \cup { <<"/", a>> :
                   a \in {"schema_version", "created_by", "coordinate_frame"} }
                \cup { <<"/subject", a>> :
                   a \in {"id", "sex", "mass_kg", "height_m"} }
            /\ groups' = groups \cup {"/subject"}
            /\ pc' = "trial"
            /\ UNCHANGED <<exc, h5open>>
    /\ UNCHANGED <<datasets, h5path>>
    /\ ConvFrame
    /\ UNCHANGED stored

\* Lines 72-83: the trials group, trial001 and its attributes.
CreateTrial ==
    /\ pc = "trial"
    /\ IF Lacks(mat, "trial001")
       THEN /\ RaiseInWith("AttributeError")
            /\ groups' = groups \cup {"/trials"}
            /\ attrs' = attrs
       ELSE IF Lacks(mat, "notes")
       THEN /\ RaiseInWith("AttributeError")
            /\ groups' = groups \cup {"/trials", "/trials/trial001"}
            /\ attrs' = attrs \cup { <<"/trials/trial001", a>> :
                   a \in {"sampling_hz", "treadmill"} }
       ELSE /\ groups' = groups \cup {"/trials", "/trials/trial001"}
            /\ attrs' = attrs \cup { <<"/trials/trial001", a>> :
                   a \in {"sampling_hz", "treadmill", "notes"} }
            /\ pc' = "time"
            /\ UNCHANGED <<exc, h5open>>
    /\ UNCHANGED <<datasets, h5path>>
    /\ ConvFrame
    /\ UNCHANGED stored

\* Lines 86-94: time and its units, when the record has the field.
WriteTime ==
    /\ pc = "time"
    /\ IF ~HasField(mat, "time")
       THEN pc' = "joint_angles" /\ UNCHANGED <<exc, h5open, datasets, attrs>>
       ELSE /\ datasets' = datasets \cup {TrialPath("time")}
            /\ IF Lacks(mat, "time.units")
               THEN RaiseInWith("AttributeError") /\ attrs' = attrs
               ELSE /\ attrs' = attrs \cup {<<TrialPath("time"), "units">>}
                    /\ pc' = "joint_angles"
                    /\ UNCHANGED <<exc, h5open>>
    /\ UNCHANGED <<groups, h5path>>
    /\ ConvFrame
    /\ UNCHANGED stored

\* Lines 97-112: joint_angles with units and plane, then joint_names.
WriteJointAngles ==
    /\ pc = "joint_angles"
    /\ IF ~HasField(mat, "joint_angles")
       THEN pc' = "grf" /\ UNCHANGED <<exc, h5open, datasets, attrs>>
       ELSE /\ attrs' = attrs \cup { <<TrialPath("joint_angles"), a>> :
                   a \in {"units", "plane"} }
            /\ IF Lacks(mat, "joint_angles.joint_names")
               THEN /\ RaiseInWith("AttributeError")
                    /\ datasets' = datasets \cup {TrialPath("joint_angles")}
               ELSE /\ datasets' = datasets \cup {TrialPath("joint_angles"),
                                                  TrialPath("joint_names")}
                    /\ pc' = "grf"
                    /\ UNCHANGED <<exc, h5open>>
    /\ UNCHANGED <<groups, h5path>>
    /\ ConvFrame
    /\ stored' =
          IF ~HasField(mat, "joint_angles") THEN stored
          ELSE IF Lacks(mat, "joint_angles.joint_names")
          THEN [stored EXCEPT !.jaShape = SqueezeCols(mat.data.jaCols)]
          ELSE [stored EXCEPT
                   !.jaShape = SqueezeCols(mat.data.jaCols),
                   !.jointNames = WrittenStrings(mat.data.jointNames)]

\* Lines 115-124: grf with units and axes. The values are written with the
\* column count they have: nothing compares it with 3.
WriteGrf ==
    /\ pc = "grf"
    /\ IF ~HasField(mat, "grf")
       THEN pc' = "events" /\ UNCHANGED <<exc, h5open, datasets, attrs>>
       ELSE /\ datasets' = datasets \cup {TrialPath("grf")}
            /\ IF Lacks(mat, "grf.axes")
               THEN /\ RaiseInWith("AttributeError")
                    /\ attrs' = attrs \cup {<<TrialPath("grf"), "units">>}
               ELSE /\ attrs' = attrs \cup { <<TrialPath("grf"), a>> :
                           a \in {"units", "axes"} }
                    /\ pc' = "events"
                    /\ UNCHANGED <<exc, h5open>>
    /\ UNCHANGED <<groups, h5path>>
    /\ ConvFrame
    /\ stored' = IF HasField(mat, "grf")
                 THEN [stored EXCEPT !.grfCols = mat.grfCols] ELSE stored

\* Lines 127-133: events and its labels attribute.
WriteEvents ==
    /\ pc = "events"
    /\ IF ~HasField(mat, "events")
       THEN pc' = "close" /\ UNCHANGED <<exc, h5open, datasets, attrs>>
       ELSE /\ datasets' = datasets \cup {TrialPath("events")}
            /\ IF Lacks(mat, "events.labels")
               THEN RaiseInWith("AttributeError") /\ attrs' = attrs
               ELSE /\ attrs' = attrs \cup {<<TrialPath("events"), "labels">>}
                    /\ pc' = "close"
                    /\ UNCHANGED <<exc, h5open>>
    /\ UNCHANGED <<groups, h5path>>
    /\ ConvFrame
    /\ stored' =
          IF ~HasField(mat, "events") THEN stored
          ELSE IF Lacks(mat, "events.labels")
          THEN [stored EXCEPT !.events = SqueezeVector(mat.data.nEvents)]
          ELSE [stored EXCEPT
                   !.events = SqueezeVector(mat.data.nEvents),
                   !.labels = WrittenStrings(mat.data.labels)]

\* The end of the with block (line 133), then lines 135-139: h5f is closed
\* and the function returns the output path.
CloseH5 ==
    /\ pc = "close"
    /\ h5open' = FALSE
    /\ pc' = "returned"
    /\ UNCHANGED <<exc, groups, datasets, attrs, h5path>>
    /\ ConvFrame
    /\ UNCHANGED stored

NextConv ==
    \/ CheckMat
    \/ RemoveExisting
    \/ LoadMat
    \/ OpenH5
    \/ WriteRootAndSubject
    \/ CreateTrial
    \/ WriteTime
    \/ WriteJointAngles
    \/ WriteGrf
    \/ WriteEvents
    \/ CloseH5

SpecConv == InitConv /\ [][NextConv]_vars

(***************************************************************************)
(* mat_to_hdf5_converter.py, verify_conversion (lines 167-204) and main    *)
(* (lines 236-265)                                                         *)
(***************************************************************************)
\* What h5py hands back for a stored string: bytes or str, by its version.
StringReps == {"bytes", "str"}
ReadString(rep, stored_str) ==
    IF rep = "bytes" THEN stored_str ELSE Val("str", stored_str.v)
ReadStrings(rep, strs) == [j \in 1..Len(strs) |-> ReadString(rep, strs[j])]

\* name.decode('utf-8') on bytes, str(name) on a str.
Decode(x) == Val("str", x.v)

EmptyReport ==
    [jointNames |-> <<>>, jaCols |-> 0, nEvents |-> 0, labels |-> <<>>]

\* Lines 174-184: joint_angles and joint_names are read, the names decoded
\* by the type of the first of them, and the shape printed.
ReadJointAngles(rep) ==
    IF TrialPath("joint_angles") \notin datasets THEN Raised("KeyError")
    ELSE IF TrialPath("joint_names") \notin datasets THEN Raised("KeyError")
    ELSE LET joint_names_raw == ReadStrings(rep, stored.jointNames)
         IN  IF Len(joint_names_raw) = 0 THEN Raised("IndexError")
             ELSE IF stored.jaShape = <<>> THEN Raised("IndexError")
             ELSE Val("ok",
                      [jointNames |->
                           [j \in 1..Len(joint_names_raw) |->
                               Decode(joint_names_raw[j])],
                       jaCols |-> stored.jaShape[1]])

\* Lines 187-189: grf is read and its shape printed.
ReadGrf ==
    IF TrialPath("grf") \notin datasets THEN Raised("KeyError")
    ELSE Val("ok", stored.grfCols)

\* Lines 192-197: events[:] (a scalar dataset cannot be sliced) and the
\* labels attribute, each label decoded if it is bytes.
ReadEvents(rep) ==
    IF TrialPath("events") \notin datasets THEN Raised("KeyError")
    ELSE IF stored.events.kind = "scalar" THEN Raised("ValueError")
    ELSE IF <<TrialPath("events"), "labels">> \notin attrs
    THEN Raised("KeyError")
    ELSE LET labels == ReadStrings(rep, stored.labels)
         IN  Val("ok",
                 [nEvents |-> stored.events.v,
                  labels |-> [j \in 1..Len(labels) |->
                                 IF labels[j].kind = "bytes"
                                 THEN Decode(labels[j]) ELSE labels[j]]])

\* The verifiers change nothing in the container they read.
ReadOnly == UNCHANGED <<groups, datasets, attrs, stored, h5path>>
VerifyFrame ==
    UNCHANGED <<exc, k, nTrials, commonInfo, emgBinValuesMax, op, arg, ret,
                mat, call>>

\* Lines 202-204: except Exception: the error is printed, (None, None,
\* None) is returned; the with block has closed the file.
VerifyFail(e) ==
    /\ report' = Val("error", e)
    /\ h5open' = FALSE
    /\ pc' = "verified"

\* main, line 247: display_hdf5_structure opens the file read-only, prints
\* it and closes it.
DisplayStructure ==
    /\ pc = "returned"
    /\ pc' = "verify"
    /\ UNCHANGED <<h5open, report>>
    /\ ReadOnly
    /\ VerifyFrame

\* Line 172: with h5py.File(h5_filename, 'r') as h5f.
VerifyOpen ==
    /\ pc = "verify"
    /\ h5open' = TRUE
    /\ report' = Val("reading", EmptyReport)
    /\ pc' = "v_joint_angles"
    /\ ReadOnly
    /\ VerifyFrame

VerifyJointAngles ==
    /\ pc = "v_joint_angles"
    /\ \E rep \in StringReps :
          LET r == ReadJointAngles(rep)
          IN  IF r.kind = "ok"
              THEN /\ report' = [report EXCEPT
                                    !.v.jointNames = r.v.jointNames,
                                    !.v.jaCols = r.v.jaCols]
                   /\ pc' = "v_grf"
                   /\ h5open' = h5open
              ELSE VerifyFail(r.kind)
    /\ ReadOnly
    /\ VerifyFrame

VerifyGrf ==
    /\ pc = "v_grf"
    /\ IF ReadGrf.kind = "ok"
       THEN pc' = "v_events" /\ UNCHANGED <<report, h5open>>
       ELSE VerifyFail(ReadGrf.kind)
    /\ ReadOnly
    /\ VerifyFrame

\* Lines 192-200: events, then "Verification successful!" and the return
\* of what was read. No length is compared with another.
VerifyEvents ==
    /\ pc = "v_events"
    /\ \E rep \in StringReps :
          LET r == ReadEvents(rep)
          IN  IF r.kind = "ok"
              THEN /\ report' = Val("success",
                                    [report.v EXCEPT
                                        !.nEvents = r.v.nEvents,
                                        !.labels = r.v.labels])
                   /\ h5open' = FALSE
                   /\ pc' = "verified"
              ELSE VerifyFail(r.kind)
    /\ ReadOnly
    /\ VerifyFrame

(***************************************************************************)
(* simple_mat_to_hdf5_converter.py                                         *)
(***************************************************************************)
\* Lines 109 and 133: the names and labels the simple converter writes.
SimpleJointNames == <<"hip_flexion", "knee_flexion", "ankle_dorsiflexion">>
SimpleLabels ==
    <<"heel_strike", "toe_off", "heel_strike_end", "toe_off_end">>
EncodeAll(strs) == [j \in 1..Len(strs) |-> Encode(strs[j])]

\* Lines 20-21: the input file must exist.
SimpleCheckMat ==
    /\ pc = "s_check"
    /\ IF mat.exists
       THEN pc' = "s_remove" /\ exc' = exc
       ELSE pc' = "raised" /\ exc' = "FileNotFoundError"
    /\ UNCHANGED <<h5open, groups, datasets, attrs, h5path, stored>>
    /\ ConvFrame

\* A converter that leaves the file at the output path where it is.
SimpleRemoveSkipped ==
    /\ pc = "s_remove"
    /\ pc' = "s_load"
    /\ UNCHANGED <<exc, h5open, groups, datasets, attrs, h5path, stored>>
    /\ ConvFrame

\* Lines 24-26: a file at the output path is removed.
SimpleRemoveExisting ==
    /\ pc = "s_remove"
    /\ h5path' = IF h5path = "old" THEN "absent" ELSE h5path
    /\ pc' = "s_load"
    /\ UNCHANGED <<exc, h5open, groups, datasets, attrs, stored>>
    /\ ConvFrame

\* Lines 31-46: loadmat in a try; without gaitData, or when loadmat raises,
\* the function prints and returns None.
SimpleLoadMat ==
    /\ pc = "s_load"
    /\ pc' = IF mat.loads /\ mat.gaitData THEN "s_create" ELSE "returned_none"
    /\ UNCHANGED <<exc, h5open, groups, datasets, attrs, h5path, stored>>
    /\ ConvFrame

\* Lines 51-72: the new container, the root attributes, subject, trials and
\* trial001 with their attributes.
SimpleCreate ==
    /\ pc = "s_create"
    /\ h5path' = "new"
    /\ h5open' = TRUE
    /\ groups' = {"/subject", "/trials", "/trials/trial001"}
    /\ datasets' = {}
    /\ attrs' =
          { <<"/", a>> :
              a \in {"schema_version", "created_by", "coordinate_frame"} }
          \cup { <<"/subject", a>> :
                   a \in {"id", "sex", "mass_kg", "height_m"} }
          \cup { <<"/trials/trial001", a>> :
                   a \in {"sampling_hz", "treadmill", "notes"} }
    /\ stored' = EmptyStore
    /\ pc' = "s_write"
    /\ exc' = exc
    /\ ConvFrame

\* Lines 76-136: the synthetic time, joint_angles (three columns),
\* joint_names, grf (three columns), events (four) and labels.
SimpleWriteData ==
    /\ pc = "s_write"
    /\ datasets' = { TrialPath(f) : f \in TrialFields \cup {"joint_names"} }
    /\ attrs' = attrs
          \cup {<<TrialPath("time"), "units">>}
          \cup { <<TrialPath("joint_angles"), a>> : a \in {"units", "plane"} }
          \cup { <<TrialPath("grf"), a>> : a \in {"units", "axes"} }
          \cup {<<TrialPath("events"), "labels">>}
    /\ stored' = [jaShape |-> <<Len(SimpleJointNames)>>,
                  jointNames |-> EncodeAll(SimpleJointNames),
                  grfCols |-> Len(<<"Fx", "Fy", "Fz">>),
                  events |-> Val("vector", Len(SimpleLabels)),
                  labels |-> EncodeAll(SimpleLabels)]
    /\ pc' = "s_close"
    /\ UNCHANGED <<exc, h5open, groups, h5path>>
    /\ ConvFrame

\* The end of the with block, then line 142: return h5_filename.
SimpleClose ==
    /\ pc = "s_close"
    /\ h5open' = FALSE
    /\ pc' = "s_returned"
    /\ UNCHANGED <<exc, groups, datasets, attrs, h5path, stored>>
    /\ ConvFrame

\* verify_simple_conversion, lines 179-195: the names are decoded one by
\* one (the dataset has an object dtype), and the shape printed.
SimpleReadJointAngles(rep) ==
    IF TrialPath("joint_angles") \notin datasets THEN Raised("KeyError")
    ELSE IF TrialPath("joint_names") \notin datasets THEN Raised("KeyError")
    ELSE LET joint_names == ReadStrings(rep, stored.jointNames)
         IN  IF stored.jaShape = <<>> THEN Raised("IndexError")
             ELSE Val("ok",
                      [jointNames |->
                           [j \in 1..Len(joint_names) |->
                               Decode(joint_names[j])],
                       jaCols |-> stored.jaShape[1]])

\* Lines 205-210: events and the labels attribute, decoded by the type of
\* the first label.
SimpleReadEvents(rep) ==
    IF TrialPath("events") \notin datasets THEN Raised("KeyError")
    ELSE IF stored.events.kind = "scalar" THEN Raised("ValueError")
    ELSE IF <<TrialPath("events"), "labels">> \notin attrs
    THEN Raised("KeyError")
    ELSE LET event_labels == ReadStrings(rep, stored.labels)
         IN  IF Len(event_labels) = 0 THEN Raised("IndexError")
             ELSE Val("ok",
                      [nEvents |-> stored.events.v,
                       labels |->
                           IF event_labels[1].kind = "bytes"
                           THEN [j \in 1..Len(event_labels) |->
                                    Decode(event_labels[j])]
                           ELSE event_labels])

\* main, lines 267-268, and verify_simple_conversion, lines 148-176: the
\* file returned is opened read-only and its structure printed.
VerifySimpleOpen ==
    /\ pc = "s_returned"
    /\ h5open' = TRUE
    /\ report' = Val("reading", EmptyReport)
    /\ pc' = "sv_joint_angles"
    /\ ReadOnly
    /\ VerifyFrame

VerifySimpleJointAngles ==
    /\ pc = "sv_joint_angles"
    /\ \E rep \in StringReps :
          LET r == SimpleReadJointAngles(rep)
          IN  IF r.kind = "ok"
              THEN /\ report' = [report EXCEPT
                                    !.v.jointNames = r.v.jointNames,
                                    !.v.jaCols = r.v.jaCols]
                   /\ pc' = "sv_grf"
                   /\ h5open' = h5open
              ELSE VerifyFail(r.kind)
    /\ ReadOnly
    /\ VerifyFrame

\* Lines 198-202: grf is read and its shape printed.
VerifySimpleGrf ==
    /\ pc = "sv_grf"
    /\ IF ReadGrf.kind = "ok"
       THEN pc' = "sv_events" /\ UNCHANGED <<report, h5open>>
       ELSE VerifyFail(ReadGrf.kind)
    /\ ReadOnly
    /\ VerifyFrame

\* Lines 205-213: events, then "Simple verification successful!" and the
\* return of what was read. No length is compared with another.
VerifySimpleEvents ==
    /\ pc = "sv_events"
    /\ \E rep \in StringReps :
          LET r == SimpleReadEvents(rep)
          IN  IF r.kind = "ok"
              THEN /\ report' = Val("success",
                                    [report.v EXCEPT
                                        !.nEvents = r.v.nEvents,
                                        !.labels = r.v.labels])
                   /\ h5open' = FALSE
                   /\ pc' = "verified"
              ELSE VerifyFail(r.kind)
    /\ ReadOnly
    /\ VerifyFrame

(***************************************************************************)
(* SpecMain: main() of either script                                       *)
(***************************************************************************)
\* A record with every field, in a file that exists and loads.
CompleteWith(D) ==
    { m \in MatFilesWith(D) :
        /\ m.exists /\ m.loads /\ m.gaitData
        /\ m.has = TrialFields /\ m.lacks = "nothing" /\ m.grfCols = 3 }

\* The inputs of the runs: mat_to_hdf5_converter on any file structure with
\* the demo data, and on a complete record with any data; the simple
\* converter, which reads nothing but the presence of gaitData, on any
\* file holding a complete record or none.
InitMain ==
    /\ \/ /\ call \in [script : {"mat_to_hdf5_converter"},
                      h5before : {"absent", "old"}]
          /\ mat \in MatFilesWith({DemoData}) \cup CompleteWith(TrialData)
          /\ pc = "check"
       \/ /\ call \in [script : {"simple_mat_to_hdf5_converter"},
                      h5before : {"absent", "old"}]
          /\ mat \in { m \in MatFilesWith({DemoData}) :
                         m.has = TrialFields /\ m.lacks = "nothing"
                         /\ m.grfCols = 3 }
          /\ pc = "s_check"
    /\ h5path = call.h5before
    /\ exc = "none"
    /\ h5open = FALSE
    /\ groups = {}
    /\ datasets = {}
    /\ attrs = {}
    /\ k = 1
    /\ nTrials = 0
    /\ commonInfo = <<>>
    /\ emgBinValuesMax = None
    /\ op = "none"
    /\ arg = <<>>
    /\ ret = NotYet
    /\ stored = EmptyStore
    /\ report = NotYet

NextMain ==
    \/ CheckMat
    \/ RemoveExisting
    \/ LoadMat
    \/ OpenH5
    \/ WriteRootAndSubject
    \/ CreateTrial
    \/ WriteTime
    \/ WriteJointAngles
    \/ WriteGrf
    \/ WriteEvents
    \/ CloseH5
    \/ DisplayStructure
    \/ VerifyOpen
    \/ VerifyJointAngles
    \/ VerifyGrf
    \/ VerifyEvents
    \/ SimpleCheckMat
    \/ SimpleRemoveExisting
    \/ SimpleLoadMat
    \/ SimpleCreate
    \/ SimpleWriteData
    \/ SimpleClose
    \/ VerifySimpleOpen
    \/ VerifySimpleJointAngles
    \/ VerifySimpleGrf
    \/ VerifySimpleEvents

SpecMain == InitMain /\ [][NextMain]_vars

(***************************************************************************)
(* Claims                                                                  *)
(***************************************************************************)
\* C1 (as claimed): once the good-trial counter has been advanced N times
\* past its start of 1, every growable dataset has leading length N.
C1_GrowableLengthInvariant ==
    Applied("commit") =>
        \A f \in DOMAIN ret.v.lens : ret.v.lens[f] = ret.v.iiTrial - 1

\* C2 (as claimed): a trial whose record fails to load is skipped: the
\* counter iiTrial keeps its value and the loop goes on to the next trial.
C2_SkipAndContinue ==
    Applied("load") /\ ~arg.loadOk =>
        /\ ret.kind = "skipped"
        /\ ret.v.iiTrial = arg.iiTrial
        /\ ret.v.loop = "continues"

\* C3 (as claimed): after the override step every field of the entry that
\* commonInfo names holds commonInfo's value for that field, and every other
\* field keeps its per-trial value.
C3_OverridePrecedence ==
    Applied("override") =>
        /\ ret.kind = "dict"
        /\ \A f \in DOMAIN arg.entry :
              ret.v[f] = IF f \in DOMAIN arg.ci THEN arg.ci[f]
                         ELSE arg.entry[f]

\* The update C4 describes: the maximum over the overlapping prefix, the
\* accumulator's tail as it was.
RaggedMax(a, b) ==
    [j \in 1..Len(a) |-> IF j <= Len(b) THEN Max2(a[j], b[j]) ELSE a[j]]

\* C4 (as claimed): when the trial has no more bins than the accumulator,
\* the update is the elementwise maximum over the overlapping prefix and the
\* accumulator's tail is unchanged (the plain elementwise maximum when the
\* bin counts are equal).
C4_RaggedRunningMaximum ==
    Applied("max") /\ arg.acc.kind = "array1" /\ arg.vals.kind = "array1"
                   /\ Len(arg.vals.v) <= Len(arg.acc.v) =>
        Same(ret.v.value, Array1(RaggedMax(arg.acc.v, arg.vals.v)))

\* C5 (as claimed): the first committed trial takes the 'accumulator is
\* unset' branch and leaves the accumulator equal to its own per-bin values;
\* every later trial takes the elementwise-maximum branch.
C5_FirstTrialInitializes ==
    Applied("max") =>
        /\ arg.iiTrial = 1 =>
              ret.v.branch = "unset" /\ Same(ret.v.value, arg.vals)
        /\ arg.iiTrial > 1 => ret.v.branch = "maximum"

\* C6 (as claimed): the entry of a trial has a slot for every declared batch
\* field, the blank-by-default ones included.
C6_NoGap ==
    Applied("write") => \A f \in BatchFields : f \in DOMAIN ret.v

C8_ContainerClosedOnExit ==
    pc \in {"raised", "returned"} => ~h5open

\* C9 (as claimed): setup never asks for a node at a path that is taken, no
\* creation fails, and once setup is over every batch field has its dataset.
C9_SetupWithoutDuplicate ==
    /\ pc = "groups" => ~PathTaken(groups, datasets, groupNames[k])
    /\ pc = "datasets" => ~PathTaken(groups, datasets, datasetNames[k])
    /\ exc # "ValueError"
    /\ pc = "loop" => datasets = BatchFields

\* C10: when convert_mat_to_hdf5 returns, each of time, joint_angles, grf
\* and events has its dataset under /trials/trial001 exactly when the trial
\* record has the field, and joint_names exactly when it has joint_angles.
C10_AbsentFieldsOmitted ==
    pc = "returned" =>
        /\ \A f \in TrialFields :
              TrialPath(f) \in datasets <=> f \in mat.has
        /\ TrialPath("joint_names") \in datasets <=> "joint_angles" \in mat.has
        /\ datasets \subseteq
              { TrialPath(f) : f \in TrialFields \cup {"joint_names"} }

\* C10 witness: a conversion returned for a record with grf and time but
\* neither joint_angles nor events.
C10_Witness ==
    /\ pc = "returned"
    /\ mat.has = {"time", "grf"}
    /\ datasets = {TrialPath("time"), TrialPath("grf")}

\* C13 (as claimed): for every list of at least one trial the progress
\* report leaves control flow alone: the iteration goes on to load the same
\* trial.
C13_ProgressIsObservabilityOnly ==
    Applied("progress") =>
        ret.kind = "ok" /\ ret.v.next = "load" /\ ret.v.i = arg.i

\* What the container read by the verifier holds: a joint_angles matrix
\* whose column count is not the number of joint_names, or an events vector
\* whose length is not the number of labels.
StoredMismatch ==
    \/ /\ {TrialPath("joint_angles"), TrialPath("joint_names")}
             \subseteq datasets
       /\ stored.jaShape # <<>>
       /\ Len(stored.jointNames) # stored.jaShape[1]
    \/ /\ TrialPath("events") \in datasets
       /\ <<TrialPath("events"), "labels">> \in attrs
       /\ stored.events.kind = "vector"
       /\ Len(stored.labels) # stored.events.v

\* C11 (as claimed): a verification of a container whose joint_names differ
\* in number from the joint_angles columns, or whose labels differ in
\* number from the events, does not report success, and raises nothing.
C11_VerifierReportsMismatch ==
    pc = "verified" /\ StoredMismatch =>
        report.kind # "success" /\ exc = "none"

\* The strings a script's input stands for, as Python str values.
AsStrs(strs) == [j \in 1..Len(strs) |-> Val("str", strs[j])]
ExpectedNames ==
    IF call.script = "simple_mat_to_hdf5_converter"
    THEN AsStrs(SimpleJointNames) ELSE AsStrs(mat.data.jointNames)
ExpectedLabels ==
    IF call.script = "simple_mat_to_hdf5_converter"
    THEN AsStrs(SimpleLabels) ELSE AsStrs(mat.data.labels)

\* The input of a full-record run is consistent: as many joint names as
\* columns, as many labels as events. (The simple converter writes its own
\* consistent data.)
ConsistentInput ==
    \/ call.script = "simple_mat_to_hdf5_converter"
    \/ /\ {"joint_angles", "grf", "events"} \subseteq mat.has
       /\ mat.lacks = "nothing"
       /\ Len(mat.data.jointNames) = mat.data.jaCols
       /\ Len(mat.data.labels) = mat.data.nEvents

\* C12 (as claimed): after converting a consistent input, the verification
\* succeeds and has read back the joint names as the same strings in the
\* same order, and as many events as labels.
C12_RoundTripFidelity ==
    pc = "verified" /\ ConsistentInput =>
        /\ report.kind = "success"
        /\ report.v.jointNames = ExpectedNames
        /\ report.v.labels = ExpectedLabels
        /\ report.v.nEvents = Len(report.v.labels)

\* C14: in both converters, a call whose input .mat file does not exist
\* raises FileNotFoundError with the output path as the call found it and
\* with no container created.
C14_MissingInputLeavesOutput ==
    pc = "raised" /\ ~mat.exists =>
        /\ exc = "FileNotFoundError"
        /\ h5path = call.h5before
        /\ ~h5open
        /\ groups = {} /\ datasets = {} /\ attrs = {}

\* C14 witness: the input is missing, a file was at the output path, the
\* call has raised and the file is still there.
C14_Witness ==
    /\ pc = "raised"
    /\ exc = "FileNotFoundError"
    /\ ~mat.exists
    /\ call.h5before = "old"
    /\ h5path = "old"

\* C15 (as claimed): when the simple converter returns None, no container
\* has been created and the output path is as the call found it.
C15_NoneLeavesOutputUnchanged ==
    pc = "returned_none" =>
        /\ h5path # "new"
        /\ groups = {} /\ datasets = {}
        /\ h5path = call.h5before

\* C15 (amended): when the simple converter returns None, no container has
\* been created and nothing is at the output path: a file that was there
\* has been removed before the load was tried.
C15_NoneLeavesOutputAbsent ==
    pc = "returned_none" =>
        /\ h5path = "absent"
        /\ ~h5open
        /\ groups = {} /\ datasets = {} /\ attrs = {}
        /\ report = NotYet

\* C15 witness: a file was at the output path, the input exists but holds
\* no gaitData, and the simple converter has returned None.
C15_Witness ==
    /\ pc = "returned_none"
    /\ call.script = "simple_mat_to_hdf5_converter"
    /\ call.h5before = "old"
    /\ mat.exists /\ mat.loads /\ ~mat.gaitData

====
